---- MODULE Spec2Model ----
(***************************************************************************)
(* Model of pifkoin's blockchain.py: the compact number codec (compact,    *)
(* uncompact), the difficulty/target conversions with their scoped decimal *)
(* precision, the BlockHeader object with calculate_hash, and the          *)
(* from_bitcoind factory.                                                  *)
(*                                                                         *)
(* Representation.  A Python byte string is a sequence over 0..255.  A     *)
(* Python long is a record [neg, mag]: mag is the magnitude as big-endian  *)
(* base-256 digits without leading zeros (<<>> is zero).  A Decimal        *)
(* quotient is kept as the exact fraction [num, den] of two longs.  An     *)
(* optional value is None (<<>>) or Some(x) (<<x>>).  The result of a call *)
(* is a record whose status is "ok" or the name of the exception raised.   *)
(***************************************************************************)
EXTENDS Integers, Sequences, FiniteSets, TLC

VARIABLES call, outcome, prec,
          height, version, previousblockhash, merkleroot, time, bits, nonce,
          hash, blockcount

vars == <<call, outcome, prec, height, version, previousblockhash, merkleroot,
          time, bits, nonce, hash, blockcount>>

headerVars == <<height, version, previousblockhash, merkleroot, time, bits,
                nonce, hash>>

None == <<>>
Some(x) == <<x>>

Ok(v) == [status |-> "ok", val |-> v]
Raise(e) == [status |-> e]

-----------------------------------------------------------------------------
(* Byte strings and longs *)

Byte == 0..255

Zeros(n) == [i \in 1..n |-> 0]

Reverse(s) == [i \in 1..Len(s) |-> s[Len(s) + 1 - i]]

StripZeros(s) ==
  LET nz == {i \in 1..Len(s) : s[i] # 0}
  IN  IF nz = {} THEN <<>>
      ELSE SubSeq(s, CHOOSE i \in nz : \A j \in nz : i <= j, Len(s))

Long(neg, mag) == [neg |-> neg /\ mag # <<>>, mag |-> mag]

Zero == Long(FALSE, <<>>)

\* The long of a small model integer.
RECURSIVE NatDigits(_)
NatDigits(k) == IF k = 0 THEN <<>> ELSE Append(NatDigits(k \div 256), k % 256)

IntToLong(k) == IF k < 0 THEN Long(TRUE, NatDigits(-k)) ELSE Long(FALSE, NatDigits(k))

MagGt(a, b) ==
  \/ Len(a) > Len(b)
  \/ /\ Len(a) = Len(b)
     /\ \E i \in 1..Len(a) : a[i] > b[i] /\ \A j \in 1..(i - 1) : a[j] = b[j]

\* a > b on longs
LongGt(a, b) ==
  IF a.neg # b.neg THEN b.neg
  ELSE IF a.neg THEN MagGt(b.mag, a.mag) ELSE MagGt(a.mag, b.mag)

RECURSIVE MagInc(_)
MagInc(m) ==
  IF m = <<>> THEN <<1>>
  ELSE IF m[Len(m)] < 255 THEN Append(SubSeq(m, 1, Len(m) - 1), m[Len(m)] + 1)
  ELSE Append(MagInc(SubSeq(m, 1, Len(m) - 1)), 0)

\* binascii.hexlify: two hex digits per byte
Hexlify(value) ==
  [i \in 1..(2 * Len(value)) |->
      IF i % 2 = 1 THEN value[(i + 1) \div 2] \div 16 ELSE value[i \div 2] % 16]

\* long(text, 16) on a sequence of hex digits; the empty text is no literal
ParseHex(digits) ==
  IF digits = <<>> THEN Raise("ValueError")
  ELSE LET even == IF Len(digits) % 2 = 1 THEN <<0>> \o digits ELSE digits
           bytes == [i \in 1..(Len(even) \div 2) |-> 16 * even[2 * i - 1] + even[2 * i]]
       IN  Ok(Long(FALSE, StripZeros(bytes)))

bytes_to_long(value) == ParseHex(Hexlify(value))

-----------------------------------------------------------------------------
(* compact / uncompact *)

\* divmod(number, 256) with Python's floor semantics
DivMod256(number) ==
  LET m == number.mag
      n == Len(m)
  IN  IF n = 0 THEN [q |-> Zero, r |-> 0]
      ELSE IF ~number.neg THEN [q |-> Long(FALSE, SubSeq(m, 1, n - 1)), r |-> m[n]]
      ELSE IF m[n] = 0 THEN [q |-> Long(TRUE, SubSeq(m, 1, n - 1)), r |-> 0]
      ELSE [q |-> Long(TRUE, MagInc(SubSeq(m, 1, n - 1))), r |-> 256 - m[n]]

\* The while loop of compact from its second test on: number is a long.  The
\* loop never ends when divmod returns the number it was given (number = -1).
RECURSIVE CompactLoop(_, _)
CompactLoop(number, base256) ==
  IF number = Zero THEN Ok(base256)
  ELSE LET d == DivMod256(number)
       IN  IF d.q = number THEN Raise("diverges")
           ELSE CompactLoop(d.q, <<d.r>> \o base256)

\* compact(number) for a long or a Decimal number = [nonzero, trunc]: nonzero
\* is its truth value, trunc is long(number)
CompactNumber(nonzero, trunc) ==
  LET looped == IF ~nonzero THEN Ok(<<>>)
                ELSE LET d == DivMod256(trunc)
                     IN  IF d.q = trunc /\ trunc # Zero THEN Raise("diverges")
                         ELSE CompactLoop(d.q, <<d.r>>)
  IN  IF looped.status # "ok" THEN looped
      ELSE IF looped.val = <<>> THEN Raise("IndexError")
      ELSE LET signed == IF looped.val[1] > 127 THEN <<0>> \o looped.val ELSE looped.val
               length == Len(signed)
               padded == IF Len(signed) < 3 THEN signed \o Zeros(3 - Len(signed)) ELSE signed
           IN  IF length > 255 THEN Raise("ValueError")
               ELSE Ok(<<length>> \o SubSeq(padded, 1, 3))

compact(number) == CompactNumber(number # Zero, number)

\* uncompact cutting the mantissa down to length bytes
uncompact_truncating(value) ==
  LET length == value[1]
      rest == SubSeq(value, 2, Len(value))
      padded == IF Len(rest) < length THEN rest \o Zeros(length - Len(rest))
                ELSE SubSeq(rest, 1, length)
  IN  bytes_to_long(padded)

uncompact(value) ==
  LET length == value[1]
      rest == SubSeq(value, 2, Len(value))
      padded == IF Len(rest) < length THEN rest \o Zeros(length - Len(rest)) ELSE rest
  IN  bytes_to_long(padded)

MAX_TARGET == uncompact(<<29, 0, 255, 255>>).val

-----------------------------------------------------------------------------
(* Decimal arithmetic and the scoped precision *)

RECURSIVE AddLE(_, _, _)
AddLE(a, b, carry) ==
  IF a = <<>> /\ b = <<>> THEN (IF carry = 0 THEN <<>> ELSE <<carry>>)
  ELSE LET x == (IF a = <<>> THEN 0 ELSE Head(a)) + (IF b = <<>> THEN 0 ELSE Head(b)) + carry
       IN  <<x % 256>> \o AddLE(IF a = <<>> THEN a ELSE Tail(a),
                                IF b = <<>> THEN b ELSE Tail(b), x \div 256)

MagAdd(a, b) == StripZeros(Reverse(AddLE(Reverse(a), Reverse(b), 0)))

RECURSIVE MulSmallLE(_, _, _)
MulSmallLE(a, k, carry) ==
  IF a = <<>> THEN (IF carry = 0 THEN <<>> ELSE <<carry>>)
  ELSE LET x == Head(a) * k + carry
       IN  <<x % 256>> \o MulSmallLE(Tail(a), k, x \div 256)

RECURSIVE MagMul(_, _)
MagMul(a, b) ==
  IF b = <<>> THEN <<>>
  ELSE LET high == MagMul(a, SubSeq(b, 1, Len(b) - 1))
           low == StripZeros(Reverse(MulSmallLE(Reverse(a), b[Len(b)], 0)))
       IN  MagAdd(IF high = <<>> THEN high ELSE Append(high, 0), low)

\* floor(m / k) for a magnitude m and a model integer 0 < k < 2^23
RECURSIVE ShortDiv(_, _, _, _)
ShortDiv(m, k, i, rem) ==
  IF i > Len(m) THEN <<>>
  ELSE LET cur == rem * 256 + m[i]
       IN  <<cur \div k>> \o ShortDiv(m, k, i + 1, cur % k)

RECURSIVE MagToInt(_)
MagToInt(m) == IF m = <<>> THEN 0 ELSE 256 * MagToInt(SubSeq(m, 1, Len(m) - 1)) + m[Len(m)]

\* Decimal(num) / den under the default traps; num is never zero here
DecimalDiv(num, den) ==
  IF den = Zero THEN Raise("DivisionByZero") ELSE Ok([num |-> num, den |-> den])

\* long(x) of a Decimal x: truncation toward zero.  The divisors of the model
\* are below 2^23 in magnitude, where the quotient's integer part has at most
\* 68 of the 78 significant digits and rounding cannot reach it.
DecimalToLong(x) ==
  Long(x.num.neg # x.den.neg,
       StripZeros(ShortDiv(x.num.mag, MagToInt(x.den.mag), 1, 0)))

\* x > y for Decimals with positive denominators
DecimalGt(x, y) ==
  LongGt(Long(x.num.neg, MagMul(x.num.mag, y.den.mag)),
         Long(y.num.neg, MagMul(y.num.mag, x.den.mag)))

\* len(str(2 ** 256)), the default of enough_decimal_precision
Digits == 78

\* Python's default Decimal precision
DefaultPrec == 28

\* enough_decimal_precision up to its yield: the ambient precision in the body
GuardEnter(ambient, digits) == IF ambient < digits THEN digits ELSE ambient

\* enough_decimal_precision after its yield: the generator has no try/finally,
\* so setcontext(orig_context) runs only when the body did not raise
GuardExit(orig_context, current, raised) == IF raised THEN current ELSE orig_context

bits_to_difficulty(b) ==
  LET t == uncompact(b)
  IN  IF t.status # "ok" THEN t ELSE DecimalDiv(MAX_TARGET, t.val)

difficulty_to_bits(difficulty) ==
  LET q == DecimalDiv(MAX_TARGET, IntToLong(difficulty))
  IN  IF q.status # "ok" THEN q
      ELSE CompactNumber(q.val.num # Zero, DecimalToLong(q.val))

\* The ambient precision once a guarded call with result r is over: a call
\* that never returns stays inside the guard.
enough_decimal_precision(ambient, digits, r) ==
  IF r.status = "diverges" THEN GuardEnter(ambient, digits)
  ELSE GuardExit(ambient, GuardEnter(ambient, digits), r.status # "ok")

-----------------------------------------------------------------------------
(* The codec and the conversions applied to bounded inputs *)

\* trailing zero bytes of the targets tried
MaxZeros == 2

\* the length bytes 0..MaxLength are tried, with 29 (MAX_TARGET's) and 255
MaxLength == 5

\* the difficulties -MaxDifficulty..MaxDifficulty are tried, with 255 and 65535
MaxDifficulty == 3

ByteSamples == {0, 1, 127, 128, 255}

\* byte strings of exactly n sampled bytes
Strings(n) == [1..n -> ByteSamples]

\* the longs with at most 3 significant bytes: a minimal big-endian prefix of
\* up to 3 bytes followed by zero bytes
Significands == {<<>>} \cup UNION {{s \in Strings(n) : s[1] # 0} : n \in 1..3}

Targets == {Long(FALSE, StripZeros(s \o Zeros(z))) : s \in Significands, z \in 0..MaxZeros}

SmallTargets == {t \in Targets : t # Zero /\ Len(StripZeros(Reverse(t.mag))) <= 2}

LengthSamples == (0..MaxLength) \cup {29, 255}

CompactValues == {<<l>> \o m : l \in LengthSamples, m \in Strings(3)}

Difficulties == (-MaxDifficulty..MaxDifficulty) \cup {255, 65535}

PrecSamples == {DefaultPrec, Digits, 100}

\* no header object and no node take part
NoHeader ==
  /\ height = None /\ version = None /\ previousblockhash = None
  /\ merkleroot = None /\ time = None /\ bits = None /\ nonce = None
  /\ hash = None /\ blockcount = 0

\* a call that never returns leaves the single thread inside it
Running == outcome.status # "diverges"

\* the calls made: one call per run, drawn by the initial state
CodecCalls ==
  {[op |-> "compact", arg |-> n] : n \in Targets}
  \cup {[op |-> "uncompact", arg |-> b] : b \in CompactValues}
  \cup {[op |-> "uncompact_compact", arg |-> n] : n \in Targets}
  \cup {[op |-> "difficulty_of_targets", arg |-> p] :
          p \in {q \in SmallTargets \X SmallTargets : LongGt(q[2], q[1])}}
  \cup {[op |-> "bits_to_difficulty", arg |-> b] : b \in CompactValues}
  \cup {[op |-> "difficulty_to_bits", arg |-> d] : d \in Difficulties}
  \cup {[op |-> "guarded_bits_to_difficulty", arg |-> b, digits |-> g] :
          b \in CompactValues, g \in {9, 100}}

Pending == outcome.status = "pending"

InitCodec ==
  /\ call \in CodecCalls
  /\ outcome = Raise("pending")
  /\ prec \in PrecSamples
  /\ NoHeader

CallCompact ==
  /\ call.op = "compact" /\ Pending
  /\ outcome' = compact(call.arg)
  /\ UNCHANGED <<call, prec, headerVars, blockcount>>

CallUncompact ==
  /\ call.op = "uncompact" /\ Pending
  /\ outcome' = uncompact(call.arg)
  /\ UNCHANGED <<call, prec, headerVars, blockcount>>

\* uncompact(compact(n))
CallRoundTrip ==
  /\ call.op = "uncompact_compact" /\ Pending
  /\ outcome' = LET c == compact(call.arg)
                IN  IF c.status # "ok" THEN c ELSE uncompact(c.val)
  /\ UNCHANGED <<call, prec, headerVars, blockcount>>

\* bits_to_difficulty(compact(t1)) and then bits_to_difficulty(compact(t2))
CallDifficultyOfTargets ==
  /\ call.op = "difficulty_of_targets" /\ Pending
  /\ LET d1 == bits_to_difficulty(compact(call.arg[1]).val)
         d2 == bits_to_difficulty(compact(call.arg[2]).val)
     IN  /\ outcome' = IF d1.status # "ok" THEN d1
                       ELSE IF d2.status # "ok" THEN d2
                       ELSE Ok(<<d1.val, d2.val>>)
         /\ prec' = IF d1.status # "ok" THEN enough_decimal_precision(prec, Digits, d1)
                    ELSE enough_decimal_precision(enough_decimal_precision(prec, Digits, d1), Digits, d2)
  /\ UNCHANGED <<call, headerVars, blockcount>>

CallBitsToDifficulty ==
  /\ call.op = "bits_to_difficulty" /\ Pending
  /\ outcome' = bits_to_difficulty(call.arg)
  /\ prec' = enough_decimal_precision(prec, Digits, bits_to_difficulty(call.arg))
  /\ UNCHANGED <<call, headerVars, blockcount>>

CallDifficultyToBits ==
  /\ call.op = "difficulty_to_bits" /\ Pending
  /\ outcome' = difficulty_to_bits(call.arg)
  /\ prec' = enough_decimal_precision(prec, Digits, difficulty_to_bits(call.arg))
  /\ UNCHANGED <<call, headerVars, blockcount>>

\* with enough_decimal_precision(digits): bits_to_difficulty(b)
CallGuardedBitsToDifficulty ==
  /\ call.op = "guarded_bits_to_difficulty" /\ Pending
  /\ outcome' = bits_to_difficulty(call.arg)
  /\ prec' = LET r == bits_to_difficulty(call.arg)
                 outer == GuardEnter(prec, call.digits)
             IN  GuardExit(prec, enough_decimal_precision(outer, Digits, r), r.status # "ok")
  /\ UNCHANGED <<call, headerVars, blockcount>>

NextCodec ==
  \/ CallCompact
  \/ CallUncompact
  \/ CallRoundTrip
  \/ CallDifficultyOfTargets
  \/ CallBitsToDifficulty
  \/ CallDifficultyToBits
  \/ CallGuardedBitsToDifficulty

SpecCodec == InitCodec /\ [][NextCodec]_vars

-----------------------------------------------------------------------------
(* BlockHeader *)

\* binascii.unhexlify on a sequence of hex digits
Unhexlify(digits) ==
  IF Len(digits) % 2 = 1 THEN Raise("TypeError")
  ELSE Ok([i \in 1..(Len(digits) \div 2) |-> 16 * digits[2 * i - 1] + digits[2 * i]])

\* struct.pack('<L', x) of an optional integer
PackL(x) ==
  IF x = None \/ x[1] < 0 THEN Raise("struct.error")
  ELSE Ok(<<x[1] % 256, (x[1] \div 256) % 256, (x[1] \div 65536) % 256,
            (x[1] \div 16777216) % 256>>)

\* value[::-1] of an optional byte string
Reversed(x) == IF x = None THEN Raise("TypeError") ELSE Ok(Reverse(x[1]))

\* the first failure among the parts, or the parts joined
RECURSIVE Join(_)
Join(parts) ==
  IF parts = <<>> THEN Ok(<<>>)
  ELSE IF Head(parts).status # "ok" THEN Head(parts)
  ELSE LET rest == Join(Tail(parts))
       IN  IF rest.status # "ok" THEN rest ELSE Ok(Head(parts).val \o rest.val)

\* the serialized header of calculate_hash; the stored time is a calendar
\* time of second resolution, read back with mktime as its Unix timestamp
Message ==
  Join(<<PackL(Some(version)), Reversed(previousblockhash), Reversed(merkleroot),
         PackL(time), Reversed(bits), PackL(nonce)>>)

\* bytes_to_long(h) > uncompact(self.bits)
ExceedsTargetFlipped(h, b) == LongGt(uncompact(b).val, bytes_to_long(h).val)
ExceedsTarget(h, b) == LongGt(bytes_to_long(h).val, uncompact(b).val)

\* calculate_hash, given the digest sha_impl(sha_impl(message).digest())
\* returns: the call's result and the hash field after it
calculate_hash_storing_first(digest) ==
  LET h == Reverse(digest)
  IN  IF Message.status # "ok" THEN [result |-> Message, hash |-> hash]
      ELSE IF ExceedsTarget(h, bits[1])
           THEN [result |-> Raise("ValueError"), hash |-> Some(h)]
      ELSE [result |-> Ok(h), hash |-> Some(h)]

calculate_hash(digest) ==
  LET h == Reverse(digest)
  IN  IF Message.status # "ok" THEN [result |-> Message, hash |-> hash]
      ELSE IF ExceedsTarget(h, bits[1])
           THEN [result |-> Raise("ValueError"), hash |-> hash]
      ELSE [result |-> Ok(h), hash |-> Some(h)]

\* BlockHeader.__init__ on a record of arguments: the fields of the new
\* object, or the exception that leaves no object
Construct(a) ==
  IF a.time = None THEN Raise("TypeError")
  ELSE IF a.bits # None /\ a.bits # Some(<<>>)
       THEN IF a.difficulty # None /\ a.difficulty # Some(0)
            THEN Raise("AssertionError")
            ELSE Ok([a EXCEPT !.difficulty = None])
  ELSE IF a.difficulty # None /\ a.difficulty # Some(0)
       THEN LET r == difficulty_to_bits(a.difficulty[1])
            IN  IF r.status # "ok" THEN r
                ELSE Ok([a EXCEPT !.bits = Some(r.val), !.difficulty = None])
  ELSE Ok([a EXCEPT !.bits = None, !.difficulty = None])

\* _cond_unhexlify of an optional text
cond_unhexlify(x) == IF x = None THEN Ok(None) ELSE
  LET r == Unhexlify(x[1]) IN IF r.status # "ok" THEN r ELSE Ok(Some(r.val))

\* BlockHeader.from_dict on a mapping with the recognized keys: text values
\* are un-hexlified, the others pass through
from_dict(d) ==
  LET p == cond_unhexlify(d.previousblockhash)
      m == cond_unhexlify(d.merkleroot)
      b == cond_unhexlify(d.bits)
      h == cond_unhexlify(d.hash)
  IN  IF p.status # "ok" THEN p
      ELSE IF m.status # "ok" THEN m
      ELSE IF b.status # "ok" THEN b
      ELSE IF h.status # "ok" THEN h
      ELSE Construct([height |-> d.height, version |-> d.version,
                      previousblockhash |-> p.val, merkleroot |-> m.val,
                      time |-> d.time, bits |-> b.val, difficulty |-> None,
                      nonce |-> d.nonce, hash |-> h.val])

Hex(x) == IF x = None THEN None ELSE Some(Hexlify(x[1]))

\* the candidate hashes and targets tried: zero, MAX_TARGET as 32 bytes, one
\* more than it, and a hash with its top byte set
HashAtMax == Zeros(4) \o <<255, 255>> \o Zeros(26)
HashAboveMax == Zeros(4) \o <<255, 255>> \o Zeros(25) \o <<1>>
HashTop == <<255>> \o Zeros(31)
HashSamples == {Zeros(32), HashAtMax, HashAboveMax, HashTop}
BitsSamples == {<<29, 0, 255, 255>>, <<27, 4, 4, 203>>, <<0, 0, 0, 0>>}

CtorArgs ==
  [height : {None, Some(0)}, version : {1, 2},
   previousblockhash : {None, Some(Zeros(32))},
   merkleroot : {Some(Zeros(31) \o <<1>>)},
   time : {None, Some(1231006505)},
   bits : {None} \cup {Some(b) : b \in BitsSamples},
   difficulty : {None} \cup {Some(d) : d \in 0..MaxDifficulty},
   nonce : {None, Some(0)},
   hash : {None, Some(HashAtMax), Some(HashTop)}]

\* the mappings a node returns: hex text for the byte fields
Mappings ==
  {[height |-> a.height, version |-> a.version,
    previousblockhash |-> Hex(a.previousblockhash), merkleroot |-> Hex(a.merkleroot),
    time |-> a.time, bits |-> Hex(a.bits), nonce |-> a.nonce, hash |-> Hex(a.hash)] :
     a \in {c \in CtorArgs : c.difficulty = None /\ c.hash # None}}

Constructed ==
  {Construct(a) : a \in CtorArgs} \cup {from_dict(d) : d \in Mappings}

HeaderIs(f) ==
  /\ height = f.height /\ version = f.version
  /\ previousblockhash = f.previousblockhash /\ merkleroot = f.merkleroot
  /\ time = f.time /\ bits = f.bits /\ nonce = f.nonce /\ hash = f.hash

InitHeader ==
  /\ \E r \in Constructed : r.status = "ok" /\ HeaderIs(r.val)
  /\ call = [op |-> "__init__"]
  /\ outcome = Ok(None)
  /\ prec = DefaultPrec
  /\ blockcount = 0

\* header.difficulty = d
DifficultySetter(d) ==
  /\ Running
  /\ call' = [op |-> "difficulty.setter", arg |-> d]
  /\ LET r == difficulty_to_bits(d)
     IN  /\ outcome' = r
         /\ bits' = IF r.status = "ok" THEN Some(r.val) ELSE bits
         /\ prec' = enough_decimal_precision(prec, Digits, r)
  /\ UNCHANGED <<height, version, previousblockhash, merkleroot, time, nonce, hash,
                 blockcount>>

\* header.difficulty
DifficultyGetter ==
  /\ Running
  /\ call' = [op |-> "difficulty"]
  /\ LET r == IF bits = None THEN Raise("TypeError") ELSE bits_to_difficulty(bits[1])
     IN  /\ outcome' = r
         /\ prec' = enough_decimal_precision(prec, Digits, r)
  /\ UNCHANGED <<headerVars, blockcount>>

CalculateHash(digest) ==
  /\ Running
  /\ call' = [op |-> "calculate_hash", digest |-> digest]
  /\ outcome' = calculate_hash(digest).result
  /\ hash' = calculate_hash(digest).hash
  /\ UNCHANGED <<prec, height, version, previousblockhash, merkleroot, time, bits,
                 nonce, blockcount>>

NextHeader ==
  \/ \E d \in -1..MaxDifficulty : DifficultySetter(d)
  \/ DifficultyGetter
  \/ \E h \in HashSamples : CalculateHash(Reverse(h))

SpecHeader == InitHeader /\ [][NextHeader]_vars

-----------------------------------------------------------------------------
(* BlockHeader.from_bitcoind against a node *)

\* the node's chain has the blocks 0..blockcount, blockcount <= MaxBlocks
MaxBlocks == 2

\* the heights -MaxHeightArg..MaxHeightArg are asked for
MaxHeightArg == 3

\* the hash of block i as the node gives it: hex text
NodeHash(i) == Hexlify(Zeros(31) \o <<i + 1>>)

\* conn.getblockhash(i)
getblockhash(i) == IF i \in 0..blockcount THEN Ok(NodeHash(i)) ELSE Raise("RPCError")

\* conn.getblock(h): the node's field-mapping of the block with hash h
getblock(h) ==
  IF \E i \in 0..blockcount : NodeHash(i) = h
  THEN LET i == CHOOSE j \in 0..blockcount : NodeHash(j) = h
       IN  Ok([height |-> Some(i), version |-> 1,
               previousblockhash |-> IF i = 0 THEN None ELSE Some(NodeHash(i - 1)),
               merkleroot |-> Some(Hexlify(Zeros(31) \o <<i + 1>>)),
               time |-> Some(1231006505 + 600 * i),
               bits |-> Some(Hexlify(<<29, 0, 255, 255>>)),
               nonce |-> Some(i), hash |-> Some(h)])
  ELSE Raise("RPCError")

\* Python truth of an optional integer and of an optional text
TruthyInt(x) == x # None /\ x[1] # 0
TruthyText(x) == x # None /\ x[1] # <<>>

\* from_bitcoind(height, hash): the constructed fields or the exception
from_bitcoind(h_arg, hash_arg) ==
  IF ~(TruthyInt(h_arg) \/ TruthyText(hash_arg)) THEN Raise("AssertionError")
  ELSE LET looked == IF TruthyText(hash_arg) THEN Ok(hash_arg[1])
                     ELSE getblockhash(IF h_arg[1] < 0 THEN blockcount + h_arg[1] + 1
                                       ELSE h_arg[1])
       IN  IF looked.status # "ok" THEN looked
           ELSE IF ~(hash_arg = None \/ looked.val = hash_arg[1]) THEN Raise("AssertionError")
           ELSE LET block == getblock(looked.val)
                IN  IF block.status # "ok" THEN block ELSE from_dict(block.val)

FactoryCalls ==
  {[op |-> "from_bitcoind", height |-> h, hash |-> x] :
     h \in {None} \cup {Some(i) : i \in -MaxHeightArg..MaxHeightArg},
     x \in {None} \cup {Some(NodeHash(i)) : i \in 0..MaxBlocks}}

InitFactory ==
  /\ call \in FactoryCalls
  /\ outcome = Raise("pending")
  /\ prec = DefaultPrec
  /\ blockcount \in 0..MaxBlocks
  /\ height = None /\ version = None /\ previousblockhash = None
  /\ merkleroot = None /\ time = None /\ bits = None /\ nonce = None
  /\ hash = None

FromBitcoind ==
  /\ call.op = "from_bitcoind" /\ Pending
  /\ LET r == from_bitcoind(call.height, call.hash)
     IN  IF r.status = "ok"
         THEN /\ outcome' = Ok(r.val.hash)
              /\ height' = r.val.height /\ version' = r.val.version
              /\ previousblockhash' = r.val.previousblockhash
              /\ merkleroot' = r.val.merkleroot /\ time' = r.val.time
              /\ bits' = r.val.bits /\ nonce' = r.val.nonce /\ hash' = r.val.hash
         ELSE /\ outcome' = r
              /\ UNCHANGED headerVars
  /\ UNCHANGED <<call, prec, blockcount>>

NextFactory == FromBitcoind

SpecFactory == InitFactory /\ [][NextFactory]_vars

-----------------------------------------------------------------------------
(* The claims *)

\* C1: a calculate_hash call leaves version, previousblockhash, merkleroot,
\* time, bits and nonce as they were, and when its candidate hash (the
\* byte-reversed digest as an unsigned integer) exceeds uncompact(bits) it
\* raises ValueError and leaves hash as it was.
C1_CalculateHashFrame ==
  [][call'.op = "calculate_hash" =>
       /\ UNCHANGED <<version, previousblockhash, merkleroot, time, bits, nonce>>
       /\ (/\ Message.status = "ok"
           /\ LongGt(bytes_to_long(Reverse(call'.digest)).val, uncompact(bits[1]).val))
          => (outcome'.status = "ValueError" /\ hash' = hash)]_vars

\* C1 witness: a call failed on the target while a hash was stored
C1_Witness ==
  /\ call.op = "calculate_hash"
  /\ outcome.status = "ValueError"
  /\ hash # None
  /\ LongGt(bytes_to_long(Reverse(call.digest)).val, uncompact(bits[1]).val)

\* C2 as claimed: in every state of a header, hash is empty or its integer
\* does not exceed uncompact(bits).
C2_HashEmptyOrVerified ==
  \/ hash = None
  \/ bits = None
  \/ ~LongGt(bytes_to_long(hash[1]).val, uncompact(bits[1]).val)

\* C2 amended: after construction the hash field changes only in a
\* calculate_hash call that succeeds, and the value stored is the one
\* returned, whose integer does not exceed uncompact(bits) at that call.
C2_HashChangesOnlyVerified ==
  [][hash' # hash =>
       /\ call'.op = "calculate_hash"
       /\ outcome'.status = "ok"
       /\ hash' = Some(outcome'.val)
       /\ bits' = bits
       /\ ~LongGt(bytes_to_long(hash'[1]).val, uncompact(bits[1]).val)]_vars

\* C2 witness: a successful calculate_hash has stored its hash
C2_Witness ==
  /\ call.op = "calculate_hash"
  /\ outcome.status = "ok"
  /\ hash = Some(outcome.val)
  /\ ~LongGt(bytes_to_long(hash[1]).val, uncompact(bits[1]).val)

\* C3 as claimed: uncompact(compact(n)) = n for every n of at most 3
\* significant bytes.
C3_RoundTrip ==
  (call.op = "uncompact_compact" /\ ~Pending) => outcome = Ok(call.arg)

\* the integer C4 claims for a compact value
ClaimedUncompact(b) ==
  LET length == b[1]
      mantissa == SubSeq(b, 2, Len(b))
  IN  IF length < 3 THEN Long(FALSE, StripZeros(SubSeq(mantissa, 1, length)))
      ELSE Long(FALSE, StripZeros(mantissa \o Zeros(length - 3)))

\* C4 as claimed: uncompact returns the integer of the first length mantissa
\* bytes when length < 3, and of the mantissa followed by length - 3 zero
\* bytes otherwise.
C4_UncompactValue ==
  (call.op = "uncompact" /\ ~Pending) => outcome = Ok(ClaimedUncompact(call.arg))

\* C5 as claimed: compact(0) returns the four bytes 0, 0, 0, 0.
C5_CompactZero ==
  (call.op = "compact" /\ call.arg = Zero /\ ~Pending) => outcome = Ok(<<0, 0, 0, 0>>)

\* C6 as claimed: a call of bits_to_difficulty or difficulty_to_bits that has
\* finished, by returning or by raising, alone or inside another guard,
\* leaves the ambient precision as it was before the call.
C6_PrecisionRestored ==
  [][(/\ call.op \in {"bits_to_difficulty", "difficulty_to_bits",
                      "guarded_bits_to_difficulty"}
      /\ Pending
      /\ outcome'.status \notin {"pending", "diverges"})
     => prec' = prec]_vars

\* C7 as claimed: difficulty_to_bits ends with a division-by-zero error for
\* every difficulty <= 0, and returns compact(round_down(MAX_TARGET /
\* difficulty)) for every difficulty > 0.
C7_DifficultyToBits ==
  (call.op = "difficulty_to_bits" /\ ~Pending) =>
     IF call.arg <= 0 THEN outcome.status = "DivisionByZero"
     ELSE outcome = compact(Long(FALSE, StripZeros(ShortDiv(MAX_TARGET.mag, call.arg, 1, 0))))

C9_StrictlyDecreasing ==
  (call.op = "difficulty_of_targets" /\ ~Pending) =>
     /\ outcome.status = "ok"
     /\ DecimalGt(outcome.val[1], outcome.val[2])

\* C10 as claimed: from_bitcoind fails its precondition exactly when neither
\* height nor hash is given, or both are given and the node's hash for the
\* height differs from the given hash.
C10_PreconditionExactly ==
  (call.op = "from_bitcoind" /\ ~Pending) =>
     LET neither == call.height = None /\ call.hash = None
         resolved == getblockhash(IF call.height[1] < 0
                                  THEN blockcount + call.height[1] + 1
                                  ELSE call.height[1])
         differing == /\ call.height # None /\ call.hash # None
                      /\ resolved.status = "ok"
                      /\ resolved.val # call.hash[1]
     IN  (outcome.status = "AssertionError") <=> (neither \/ differing)

====
